---- MODULE Spec2Model ----
(***************************************************************************)
(* Model of the forecasting pipeline of src/forecasting.py (run_pipeline,  *)
(* LLMClient.complete, forecaster_prompt) as it is driven by the button    *)
(* handler of src/app.py through asyncio.run.                              *)
(*                                                                         *)
(* Text is a sequence of one-character strings, so that str.strip and      *)
(* str.upper are computed and not assumed.  An HTTP exchange is a record   *)
(* describing what the remote service did; complete turns it into a        *)
(* returned text or a raised exception.                                    *)
(***************************************************************************)
EXTENDS Integers, Sequences, FiniteSets, TLC

VARIABLES
    pc,               \* where run_pipeline / the button handler stands
    wire,             \* the exchange of the classification call, while its response is held
    question_type,    \* local question_type of run_pipeline
    cls,              \* the classification call
    forecasts_tasks,  \* the 4 forecaster tasks
    judge_tasks,      \* the 2 judge tasks
    sup,              \* the synthesis (supreme) call
    acc,              \* list being built by the running list comprehension
    forecasts,        \* local forecasts of run_pipeline
    judge_feedback,   \* local judge_feedback of run_pipeline
    result,           \* the ForecastResult returned, or NoResult
    error,            \* the exception run_pipeline raised, or NoError
    posts,            \* number of client.post calls made, per stage
    forder,           \* forecaster indices in the order their calls ended
    jorder,           \* judge indices in the order their calls ended
    display           \* what the presentation layer shows

vars == <<pc, wire, question_type, cls, forecasts_tasks, judge_tasks, sup, acc,
          forecasts, judge_feedback, result, error, posts, forder, jorder, display>>

----------------------------------------------------------------------------
(* Bounds of the model *)

\* longest run of whitespace put before and after a classification label
MaxPad == 1

(* Program constants *)

NumForecasters == 4
NumJudges == 2

----------------------------------------------------------------------------
(* Text *)

LowerLetters == <<"a","b","c","d","e","f","g","h","i","j","k","l","m",
                  "n","o","p","q","r","s","t","u","v","w","x","y","z">>
UpperLetters == <<"A","B","C","D","E","F","G","H","I","J","K","L","M",
                  "N","O","P","Q","R","S","T","U","V","W","X","Y","Z">>

Whitespace == {" ", "\n", "\t"}

\* str.upper on one character
UpperChar(c) ==
    IF \E i \in 1..26 : LowerLetters[i] = c
    THEN UpperLetters[CHOOSE i \in 1..26 : LowerLetters[i] = c]
    ELSE c

\* str.upper
Upper(s) == [i \in 1..Len(s) |-> UpperChar(s[i])]

RECURSIVE LStrip(_)
LStrip(s) == IF s # <<>> /\ Head(s) \in Whitespace THEN LStrip(Tail(s)) ELSE s

RECURSIVE RStrip(_)
RStrip(s) ==
    IF s # <<>> /\ s[Len(s)] \in Whitespace
    THEN RStrip(SubSeq(s, 1, Len(s) - 1))
    ELSE s

\* str.strip
Strip(s) == RStrip(LStrip(s))

NUMERIC == <<"N","U","M","E","R","I","C">>
BINARY == <<"B","I","N","A","R","Y">>
MCQ == <<"M","C","Q">>

Labels == {NUMERIC, BINARY, MCQ}

----------------------------------------------------------------------------
(* The remote completion service, as seen by one client.post call *)

\* exception classes that LLMClient.complete lets escape
NoExc == "None"

\* an HTTP exchange: how the transport ended, the status, the body's shape
Exchange(net, status, shape, content) ==
    [net |-> net, status |-> status, shape |-> shape, content |-> content]

TimedOut == Exchange("timeout", 0, "none", <<>>)
ConnectFailed == Exchange("connect_error", 0, "none", <<>>)
ServerError == Exchange("ok", 500, "text", <<"o","o","p","s">>)
NotFound == Exchange("ok", 404, "not_json", <<>>)
Body(shape) == Exchange("ok", 200, shape, <<>>)
Text(content) == Exchange("ok", 200, "text", content)

\* bodies that lack choices[0].message.content
MalformedShapes ==
    {"not_json", "no_choices", "empty_choices", "no_message", "no_content", "null_content"}

Returned(text) == [ok |-> TRUE, text |-> text, exc |-> NoExc]
Raised(exc) == [ok |-> FALSE, text |-> <<>>, exc |-> exc]

\* the status is not looked at
RaiseForStatusNever(status) == NoExc

\* response.raise_for_status()
RaiseForStatus(status) == IF status \in 200..299 THEN NoExc ELSE "HTTPStatusError"

\* the content is returned as received
ExtractContentNoStrip(shape, content) ==
    CASE shape = "not_json"      -> Raised("JSONDecodeError")
      [] shape = "no_choices"    -> Raised("KeyError")
      [] shape = "empty_choices" -> Raised("IndexError")
      [] shape = "no_message"    -> Raised("KeyError")
      [] shape = "no_content"    -> Raised("KeyError")
      [] shape = "null_content"  -> Raised("AttributeError")
      [] shape = "text"          -> Returned(content)

\* response.json() on the body, then
\* data["choices"][0]["message"]["content"].strip()
ExtractContent(shape, content) ==
    CASE shape = "not_json"      -> Raised("JSONDecodeError")
      [] shape = "no_choices"    -> Raised("KeyError")
      [] shape = "empty_choices" -> Raised("IndexError")
      [] shape = "no_message"    -> Raised("KeyError")
      [] shape = "no_content"    -> Raised("KeyError")
      [] shape = "null_content"  -> Raised("AttributeError")
      [] shape = "text"          -> Returned(Strip(content))

\* LLMClient.complete, given what the service did with its one request
complete(x) ==
    IF x.net = "timeout" THEN Raised("TimeoutException")
    ELSE IF x.net = "connect_error" THEN Raised("ConnectError")
    ELSE IF RaiseForStatus(x.status) # NoExc THEN Raised(RaiseForStatus(x.status))
    ELSE ExtractContent(x.shape, x.content)

----------------------------------------------------------------------------
(* Prompt builders *)

\* the lookup table of forecaster_prompt
task_description ==
    [qt \in Labels |->
        CASE qt = NUMERIC -> "single numeric forecast"
          [] qt = BINARY  -> "probability of YES between 0 and 100"
          [] qt = MCQ     -> "probabilities per option summing to 100"]

\* forecaster_prompt: the table lookup raises KeyError on an unknown type
forecaster_prompt(qt) ==
    IF qt \in DOMAIN task_description
    THEN [ok |-> TRUE, exc |-> NoExc, task |-> task_description[qt]]
    ELSE [ok |-> FALSE, exc |-> "KeyError", task |-> "none"]

\* no default for an unknown label
NormalizeTypeNoDefault(text) == Upper(text)

\* the normalisation of run_pipeline: upper-case, then default to NUMERIC
NormalizeType(text) ==
    IF Upper(text) \notin Labels THEN NUMERIC ELSE Upper(text)

----------------------------------------------------------------------------
(* Inputs *)

PadChars == {" ", "\n"}

\* runs of whitespace of length at most MaxPad
Pads == UNION {[1..n -> PadChars] : n \in 0..MaxPad}

\* what the model may answer to the classification prompt, before padding
ClassifyCores ==
    { NUMERIC, BINARY, MCQ,
      <<"n","u","m","e","r","i","c">>,
      <<"B","i","n","a","r","y">>,
      <<"m","C","q">>,
      <<"u","n","s","u","r","e">>,
      <<>>,
      <<"B","i","n","a","r","y","!","!">>,
      <<"M"," ","C","Q">> }

ClassifyContents == {a \o c \o b : a \in Pads, c \in ClassifyCores, b \in Pads}

Failures == {TimedOut, ConnectFailed, ServerError, NotFound} \cup {Body(sh) : sh \in MalformedShapes}

\* exchanges of the classification call
ClassifyExchanges == Failures \cup {Text(c) : c \in ClassifyContents}

\* exchanges of a forecaster call
ForecastContents == {<<"6","0","%">>, <<" ","5","5","%","\n">>}
ForecastExchanges == {TimedOut, ServerError} \cup {Text(c) : c \in ForecastContents}

\* exchanges of a judge call
JudgeContents == {<<"o","k">>, <<"\n","o","u","t","l","i","e","r"," ">>}
JudgeExchanges == {Body("empty_choices")} \cup {Text(c) : c \in JudgeContents}

\* exchanges of the synthesis call
SupremeContents == {<<"w","h","y","\n","\n","7","0","%","\n">>}
SupremeExchanges == {ConnectFailed} \cup {Text(c) : c \in SupremeContents}

----------------------------------------------------------------------------
(* State *)

NoExchange == Exchange("none", 0, "none", <<>>)
NoType == <<"unset">>
NoError == [exc |-> NoExc, stage |-> "none", idx |-> 0]
NoResult == [question_type |-> NoType, forecasts |-> <<>>, judge_feedback |-> <<>>,
             supreme_decision |-> <<>>]
NoDisplay == [kind |-> "none", text |-> <<>>, exc |-> NoExc]

NoCall == [st |-> "none", text |-> <<>>, exc |-> NoExc]
Created == [st |-> "created", text |-> <<>>, exc |-> NoExc]
InFlight == [st |-> "inflight", text |-> <<>>, exc |-> NoExc]
Cancelled == [st |-> "cancelled", text |-> <<>>, exc |-> "CancelledError"]

\* the state of a call whose coroutine ended with r
Ended(r) ==
    IF r.ok THEN [st |-> "done", text |-> r.text, exc |-> NoExc]
    ELSE [st |-> "failed", text |-> <<>>, exc |-> r.exc]

\* the state of a directly awaited call that ended with r: its text is handed
\* to run_pipeline and not kept
EndedCall(r) == [Ended(r) EXCEPT !.text = <<>>]

Init ==
    /\ pc = "idle"
    /\ wire = NoExchange
    /\ question_type = NoType
    /\ cls = NoCall
    /\ forecasts_tasks = <<>>
    /\ judge_tasks = <<>>
    /\ sup = NoCall
    /\ acc = <<>>
    /\ forecasts = <<>>
    /\ judge_feedback = <<>>
    /\ result = NoResult
    /\ error = NoError
    /\ posts = [classify |-> 0, forecast |-> 0, judge |-> 0, supreme |-> 0]
    /\ forder = <<>>
    /\ jorder = <<>>
    /\ display = NoDisplay

----------------------------------------------------------------------------
(* asyncio tasks and the list comprehensions that await them *)

\* [asyncio.create_task(client.complete(...)) for _ in range(n)]
CreateTasks(n) == [i \in 1..n |-> Created]

\* the task that the i-th await of a comprehension over tasks waits for
AwaitedTask(tasks, i) == tasks[i]

\* failures isolated per call: a failed task counts as collected
StopIndexIsolating(tasks, collected) ==
    LET n == Len(collected)
        rest == {i \in (n + 1)..Len(tasks) : tasks[i].st \notin {"done", "failed"}}
    IN  IF rest = {} THEN Len(tasks) + 1
        ELSE CHOOSE i \in rest : \A j \in rest : i <= j

\* only the task awaited first is waited for
StopIndexFirstOnly(tasks, collected) == Len(tasks) + 1

\* fail-fast: any failed task stops the comprehension, whatever its index
StopIndexFailFast(tasks, collected) ==
    LET n == Len(collected)
        failed == {i \in (n + 1)..Len(tasks) : tasks[i].st = "failed"}
        rest == {i \in (n + 1)..Len(tasks) : tasks[i].st # "done"}
    IN  IF failed # {} THEN CHOOSE i \in failed : \A j \in failed : i >= j
        ELSE IF rest = {} THEN Len(tasks) + 1
        ELSE CHOOSE i \in rest : \A j \in rest : i <= j

\* index at which [await task for task in tasks], resumed with acc collected,
\* stops: the first task that is not done, or one past the last task
StopIndex(tasks, collected) ==
    LET n == Len(collected)
        rest == {i \in (n + 1)..Len(tasks) : AwaitedTask(tasks, i).st # "done"}
    IN  IF rest = {} THEN Len(tasks) + 1
        ELSE CHOOSE i \in rest : \A j \in rest : i <= j

\* results taken in the order the calls ended
CollectAsCompleted(tasks, collected, stop) ==
    LET order == IF tasks = forecasts_tasks THEN forder ELSE jorder
    IN  collected \o [k \in 1..(stop - 1 - Len(collected)) |->
                        IF Len(collected) + k \in DOMAIN order
                        THEN tasks[order[Len(collected) + k]].text
                        ELSE tasks[Len(collected) + k].text]

\* the results collected when the comprehension has run up to index stop
Collect(tasks, collected, stop) ==
    collected \o [k \in 1..(stop - 1 - Len(collected)) |->
                    AwaitedTask(tasks, Len(collected) + k).text]

\* a failed call is made again
CanStartOrRetry(tasks, i) ==
    /\ i \in 1..Len(tasks)
    /\ tasks[i].st \in {"created", "failed"}
    /\ \A j \in 1..(i - 1) : tasks[j].st # "created"

\* tasks start in creation order, each when the loop first runs it
CanStart(tasks, i) ==
    /\ i \in 1..Len(tasks)
    /\ tasks[i].st = "created"
    /\ \A j \in 1..(i - 1) : tasks[j].st # "created"

\* a response is handled only after every created task has made its request
CanEnd(tasks, i) ==
    /\ i \in 1..Len(tasks)
    /\ tasks[i].st = "inflight"
    /\ \A j \in 1..Len(tasks) : tasks[j].st # "created"

\* pending tasks are left alone
CancelNothing(tasks) == tasks

\* asyncio.run cancels the tasks still pending when the main coroutine ends
CancelPending(tasks) ==
    [i \in 1..Len(tasks) |->
        IF tasks[i].st \in {"created", "inflight"} THEN Cancelled ELSE tasks[i]]

----------------------------------------------------------------------------
(* Actions *)

\* the exception is wrapped in a generic one
FailWrapped(exc, stage, idx) == [exc |-> "RuntimeError", stage |-> stage, idx |-> idx]

\* the exception that leaves run_pipeline: the one raised by the call awaited
Fail(exc, stage, idx) == [exc |-> exc, stage |-> stage, idx |-> idx]

\* app.py: the Run Forecast button; asyncio.run(run_pipeline(...)) runs up to
\* the first request
RunButton(has_key, has_model, has_title) ==
    /\ pc = "idle"
    /\ IF ~has_key \/ ~has_model \/ ~has_title
       THEN /\ pc' = "rejected"
            /\ display' = [kind |-> "validation", text |-> <<>>, exc |-> NoExc]
            /\ UNCHANGED <<cls, posts>>
       ELSE /\ pc' = "classify"
            /\ cls' = InFlight
            /\ posts' = [posts EXCEPT !.classify = @ + 1]
            /\ UNCHANGED display
    /\ UNCHANGED <<wire, question_type, forecasts_tasks, judge_tasks, sup, acc,
                   forecasts, judge_feedback, result, error, forder, jorder>>

\* the classification call ends; run_pipeline normalises the type and creates
\* the forecaster tasks
ClassifyEnds(x) ==
    /\ pc = "classify"
    /\ cls.st = "inflight"
    /\ LET r == complete(x)
           qt == NormalizeType(r.text)
           prompt == forecaster_prompt(qt)
       IN  /\ cls' = EndedCall(r)
           /\ wire' = x
           /\ IF ~r.ok
              THEN /\ pc' = "failed"
                   /\ error' = Fail(r.exc, "classify", 1)
                   /\ UNCHANGED <<question_type, forecasts_tasks>>
              ELSE /\ question_type' = qt
                   /\ IF ~prompt.ok
                      THEN /\ pc' = "failed"
                           /\ error' = Fail(prompt.exc, "forecaster_prompt", 0)
                           /\ UNCHANGED forecasts_tasks
                      ELSE /\ pc' = "forecast"
                           /\ forecasts_tasks' = CreateTasks(NumForecasters)
                           /\ UNCHANGED error
    /\ UNCHANGED <<judge_tasks, sup, acc, forecasts, judge_feedback, result, posts,
                   forder, jorder, display>>

\* a forecaster task runs for the first time and makes its request; the
\* classification response has been released by then
StartForecaster(i) ==
    /\ pc = "forecast"
    /\ CanStart(forecasts_tasks, i)
    /\ forecasts_tasks' = [forecasts_tasks EXCEPT ![i] = InFlight]
    /\ posts' = [posts EXCEPT !.forecast = @ + 1]
    /\ wire' = NoExchange
    /\ UNCHANGED <<pc, question_type, cls, judge_tasks, sup, acc, forecasts,
                   judge_feedback, result, error, forder, jorder, display>>

\* a forecaster call ends, with a text or an exception
ForecasterEnds(i, x) ==
    /\ display.kind = "none"
    /\ CanEnd(forecasts_tasks, i)
    /\ forecasts_tasks' = [forecasts_tasks EXCEPT ![i] = Ended(complete(x))]
    /\ forder' = Append(forder, i)
    /\ UNCHANGED <<pc, wire, question_type, cls, judge_tasks, sup, acc, forecasts,
                   judge_feedback, result, error, posts, jorder, display>>

\* run_pipeline resumes in forecasts = [await task for task in forecasts_tasks]
AwaitForecasts ==
    /\ pc = "forecast"
    /\ Len(acc) < Len(forecasts_tasks)
    /\ AwaitedTask(forecasts_tasks, Len(acc) + 1).st \in {"done", "failed"}
    /\ LET stop == StopIndex(forecasts_tasks, acc)
       IN  IF stop > Len(forecasts_tasks)
           THEN /\ forecasts' = Collect(forecasts_tasks, acc, stop)
                /\ acc' = <<>>
                /\ judge_tasks' = CreateTasks(NumJudges)
                /\ pc' = "judge"
                /\ UNCHANGED error
           ELSE IF AwaitedTask(forecasts_tasks, stop).st = "failed"
           THEN /\ pc' = "failed"
                /\ error' = Fail(AwaitedTask(forecasts_tasks, stop).exc, "forecast", stop)
                /\ acc' = <<>>
                /\ UNCHANGED <<forecasts, judge_tasks>>
           ELSE /\ acc' = Collect(forecasts_tasks, acc, stop)
                /\ UNCHANGED <<pc, error, forecasts, judge_tasks>>
    /\ UNCHANGED <<wire, question_type, cls, forecasts_tasks, sup, judge_feedback,
                   result, posts, forder, jorder, display>>

\* a judge task runs for the first time and makes its request
StartJudge(i) ==
    /\ pc = "judge"
    /\ CanStart(judge_tasks, i)
    /\ judge_tasks' = [judge_tasks EXCEPT ![i] = InFlight]
    /\ posts' = [posts EXCEPT !.judge = @ + 1]
    /\ UNCHANGED <<pc, wire, question_type, cls, forecasts_tasks, sup, acc, forecasts,
                   judge_feedback, result, error, forder, jorder, display>>

\* a judge call ends, with a text or an exception
JudgeEnds(i, x) ==
    /\ display.kind = "none"
    /\ CanEnd(judge_tasks, i)
    /\ judge_tasks' = [judge_tasks EXCEPT ![i] = Ended(complete(x))]
    /\ jorder' = Append(jorder, i)
    /\ UNCHANGED <<pc, wire, question_type, cls, forecasts_tasks, sup, acc, forecasts,
                   judge_feedback, result, error, posts, forder, display>>

\* run_pipeline resumes in judge_feedback = [await task for task in judge_tasks];
\* when both are collected it makes the synthesis request
AwaitJudges ==
    /\ pc = "judge"
    /\ Len(acc) < Len(judge_tasks)
    /\ AwaitedTask(judge_tasks, Len(acc) + 1).st \in {"done", "failed"}
    /\ LET stop == StopIndex(judge_tasks, acc)
       IN  IF stop > Len(judge_tasks)
           THEN /\ judge_feedback' = Collect(judge_tasks, acc, stop)
                /\ acc' = <<>>
                /\ sup' = InFlight
                /\ posts' = [posts EXCEPT !.supreme = @ + 1]
                /\ pc' = "supreme"
                /\ UNCHANGED error
           ELSE IF AwaitedTask(judge_tasks, stop).st = "failed"
           THEN /\ pc' = "failed"
                /\ error' = Fail(AwaitedTask(judge_tasks, stop).exc, "judge", stop)
                /\ acc' = <<>>
                /\ UNCHANGED <<judge_feedback, sup, posts>>
           ELSE /\ acc' = Collect(judge_tasks, acc, stop)
                /\ UNCHANGED <<pc, error, judge_feedback, sup, posts>>
    /\ UNCHANGED <<wire, question_type, cls, forecasts_tasks, judge_tasks, forecasts,
                   result, forder, jorder, display>>

\* the synthesis call ends; run_pipeline returns the ForecastResult or raises
SupremeEnds(x) ==
    /\ pc = "supreme"
    /\ sup.st = "inflight"
    /\ LET r == complete(x)
       IN  /\ sup' = EndedCall(r)
           /\ IF r.ok
              THEN /\ pc' = "returned"
                   /\ result' = [question_type |-> question_type,
                                 forecasts |-> forecasts,
                                 judge_feedback |-> judge_feedback,
                                 supreme_decision |-> r.text]
                   /\ UNCHANGED error
              ELSE /\ pc' = "failed"
                   /\ error' = Fail(r.exc, "supreme", 1)
                   /\ UNCHANGED result
    /\ UNCHANGED <<wire, question_type, cls, forecasts_tasks, judge_tasks, acc,
                   forecasts, judge_feedback, posts, forder, jorder, display>>

\* asyncio.run ends: it cancels the tasks still pending, then the handler
\* shows the decision or the error
AsyncioRunExit ==
    /\ pc \in {"returned", "failed"}
    /\ display.kind = "none"
    /\ forecasts_tasks' = CancelPending(forecasts_tasks)
    /\ judge_tasks' = CancelPending(judge_tasks)
    /\ display' = IF pc = "returned"
                  THEN [kind |-> "decision", text |-> result.supreme_decision, exc |-> NoExc]
                  ELSE [kind |-> "error", text |-> <<>>, exc |-> error.exc]
    /\ UNCHANGED <<pc, wire, question_type, cls, sup, acc, forecasts, judge_feedback,
                   result, error, posts, forder, jorder>>

Next ==
    \/ \E k, m, t \in BOOLEAN : RunButton(k, m, t)
    \/ pc = "classify" /\ \E x \in ClassifyExchanges : ClassifyEnds(x)
    \/ \E i \in 1..NumForecasters : StartForecaster(i)
    \/ \E i \in 1..NumForecasters, x \in ForecastExchanges : ForecasterEnds(i, x)
    \/ AwaitForecasts
    \/ \E i \in 1..NumJudges : StartJudge(i)
    \/ \E i \in 1..NumJudges, x \in JudgeExchanges : JudgeEnds(i, x)
    \/ AwaitJudges
    \/ \E x \in SupremeExchanges : SupremeEnds(x)
    \/ AsyncioRunExit

Spec == Init /\ [][Next]_vars

\* every request ends (at the latest by its timeout) and the event loop runs
\* every ready callback
FairSpec == Spec /\ WF_vars(Next)

----------------------------------------------------------------------------
(* Properties *)

Stages == {"forecast", "judge"}
TasksOf(stage) == IF stage = "forecast" THEN forecasts_tasks ELSE judge_tasks
OrderOf(stage) == IF stage = "forecast" THEN forder ELSE jorder

SomeTask(tasks, states) == \E i \in DOMAIN tasks : tasks[i].st \in states
EveryTask(tasks, states) == \A i \in DOMAIN tasks : tasks[i].st \in states

ForecasterFailed == SomeTask(forecasts_tasks, {"failed"})
NoJudgeCall == judge_tasks = <<>> /\ posts.judge = 0
NoSupremeCall == sup.st = "none" /\ posts.supreme = 0

\* C1, safety: once a forecaster call has failed, no judge call and no synthesis
\* call exists, run_pipeline has not returned, and when asyncio.run has ended
\* run_pipeline has failed and the error is shown
SafeC1 ==
    ForecasterFailed =>
        /\ NoJudgeCall
        /\ NoSupremeCall
        /\ pc \in {"forecast", "failed"}
        /\ result = NoResult
        /\ (display.kind # "none" => pc = "failed" /\ display.kind = "error")

\* C1: if any of the 4 forecaster calls fails, whatever its index and whatever the
\* others do and in whatever order, run_pipeline fails, and no judge call and no
\* synthesis call is ever issued
TheoremC1 == []SafeC1 /\ (ForecasterFailed ~> pc = "failed")

\* the last forecaster fails before any other call ends, the other three succeed
\* afterwards, and run_pipeline has failed
WitnessC1 ==
    /\ pc = "failed"
    /\ Len(forecasts_tasks) = NumForecasters
    /\ forecasts_tasks[NumForecasters].st = "failed"
    /\ \A i \in 1..(NumForecasters - 1) : forecasts_tasks[i].st = "done"
    /\ Len(forder) = NumForecasters
    /\ forder[1] = NumForecasters
    /\ display.kind = "error"

\* C2: when run_pipeline succeeds, forecasts has exactly 4 entries and
\* judge_feedback exactly 2, and entry i of each is the response of the i-th
\* created call of its stage, whatever the order in which the calls ended
TheoremC2 ==
    pc = "returned" =>
        /\ Len(result.forecasts) = NumForecasters
        /\ Len(result.judge_feedback) = NumJudges
        /\ \A i \in 1..NumForecasters : result.forecasts[i] = forecasts_tasks[i].text
        /\ \A i \in 1..NumJudges : result.judge_feedback[i] = judge_tasks[i].text

\* a successful run in which the calls of both stages ended in the reverse of their
\* creation order, with different responses
WitnessC2 ==
    /\ pc = "returned"
    /\ forder = <<4, 3, 2, 1>>
    /\ jorder = <<2, 1>>
    /\ forecasts_tasks[1].text # forecasts_tasks[4].text
    /\ judge_tasks[1].text # judge_tasks[2].text
    /\ result.forecasts[1] = forecasts_tasks[1].text

\* stages that have a call created or in flight
Pending(call) == call.st \in {"created", "inflight"}
StagesInFlight ==
    {st \in {"classify", "forecast", "judge", "supreme"} :
        \/ st = "classify" /\ Pending(cls)
        \/ st = "forecast" /\ \E i \in DOMAIN forecasts_tasks : Pending(forecasts_tasks[i])
        \/ st = "judge" /\ \E i \in DOMAIN judge_tasks : Pending(judge_tasks[i])
        \/ st = "supreme" /\ Pending(sup)}

\* C6: stages are separated by barriers: no forecaster call before the
\* classification call has returned, no judge call before all 4 forecaster calls
\* have returned successfully, the synthesis call only after both judge calls have
\* returned successfully, the ForecastResult only after the synthesis call has
\* returned; calls in flight at the same time belong to the same stage
TheoremC6 ==
    /\ (forecasts_tasks # <<>> \/ posts.forecast > 0 => cls.st = "done")
    /\ (judge_tasks # <<>> \/ posts.judge > 0 =>
            /\ Len(forecasts_tasks) = NumForecasters
            /\ EveryTask(forecasts_tasks, {"done"})
            /\ Len(forecasts) = NumForecasters)
    /\ (sup.st # "none" \/ posts.supreme > 0 =>
            /\ Len(judge_tasks) = NumJudges
            /\ EveryTask(judge_tasks, {"done"})
            /\ Len(judge_feedback) = NumJudges)
    /\ (pc = "returned" \/ result # NoResult => sup.st = "done")
    /\ Cardinality(StagesInFlight) <= 1

\* both judge calls are in flight together, after the four forecasts
WitnessC6 ==
    /\ pc = "judge"
    /\ Len(judge_tasks) = NumJudges
    /\ EveryTask(judge_tasks, {"inflight"})
    /\ Len(forecasts) = NumForecasters

\* calls of a stage that have made their request
Started(tasks) == Cardinality({i \in DOMAIN tasks : tasks[i].st \notin {"none", "created"}})

SameLetter(c, d) ==
    \/ c = d
    \/ \E k \in 1..26 : {c, d} = {LowerLetters[k], UpperLetters[k]}

\* s is label in any letter case, between two runs of whitespace
MatchesLabel(s, label) ==
    \E a \in 0..Len(s) :
        /\ a + Len(label) <= Len(s)
        /\ \A k \in 1..a : s[k] \in Whitespace
        /\ \A k \in 1..Len(label) : SameLetter(s[a + k], label[k])
        /\ \A k \in (a + Len(label) + 1)..Len(s) : s[k] \in Whitespace

\* the question type that a classification reply stands for
ExpectedType(s) ==
    IF \E label \in Labels : MatchesLabel(s, label)
    THEN CHOOSE label \in Labels : MatchesLabel(s, label)
    ELSE NUMERIC

\* the classification call has returned a text and its response is still held
ClassificationHeld == cls.st = "done" /\ wire # NoExchange

\* C3: a classification reply that is NUMERIC, BINARY or MCQ in any letter case
\* between surrounding whitespace gives that label as question type, every other
\* reply gives NUMERIC; the question type does not change afterwards and is the one
\* of the ForecastResult
TheoremC3 ==
    /\ [](ClassificationHeld => question_type = ExpectedType(wire.content))
    /\ [][question_type # NoType => question_type' = question_type]_vars
    /\ [](pc = "returned" => result.question_type = question_type)

\* the reply " mCq\n" has been classified as MCQ
WitnessC3 ==
    /\ ClassificationHeld
    /\ wire.content = <<" ", "m", "C", "q", "\n">>
    /\ question_type = MCQ
    /\ pc = "forecast"

\* C9: the lookup of forecaster_prompt never fails: for every classification
\* reply the question type handed to the prompt builders is NUMERIC, BINARY or MCQ
TheoremC9 ==
    /\ error.stage # "forecaster_prompt"
    /\ (cls.st = "done" =>
            /\ question_type \in DOMAIN task_description
            /\ forecaster_prompt(question_type).ok)
    /\ (forecasts_tasks # <<>> \/ judge_tasks # <<>> \/ sup.st # "none" =>
            question_type \in Labels)

\* the reply "Binary!!" is no label, and the forecasters were created for NUMERIC
WitnessC9 ==
    /\ ClassificationHeld
    /\ wire.content = <<"B","i","n","a","r","y","!","!">>
    /\ question_type = NUMERIC
    /\ Len(forecasts_tasks) = NumForecasters

\* the causes of failure that the error kinds are defined for
CauseTimeout(x) == x.net = "timeout"
CauseStatus(x) == x.net = "ok" /\ x.status \notin 200..299
CauseMalformed(x) == x.net = "ok" /\ x.status \in 200..299 /\ x.shape \in MalformedShapes

\* the error kind that an exception class stands for
ErrorKind(exc) ==
    CASE exc = "TimeoutException" -> "Timeout"
      [] exc = "HTTPStatusError" -> "RequestFailed"
      [] exc \in {"JSONDecodeError", "KeyError", "IndexError", "TypeError", "AttributeError"}
            -> "MalformedResponse"
      [] OTHER -> "Other"

DefinedKinds == {"Timeout", "RequestFailed", "MalformedResponse"}

\* the classification call has ended and its exchange is still held
ExchangeHeld == cls.st \in {"done", "failed"} /\ wire # NoExchange

\* C7 as stated: every failure of a completion call is a Timeout, a RequestFailed
\* or a MalformedResponse
OriginalC7 == cls.st = "failed" => ErrorKind(cls.exc) \in DefinedKinds

\* C7 as amended: a call that times out fails with Timeout, one answered with a
\* non-success status fails with RequestFailed, one whose body lacks
\* choices[0].message.content fails with MalformedResponse; a call fails for no
\* other reason than these and a failed connection, and the error of a failed
\* connection is none of the three kinds
TheoremC7 ==
    ExchangeHeld =>
        /\ (CauseTimeout(wire) => cls.st = "failed" /\ ErrorKind(cls.exc) = "Timeout")
        /\ (CauseStatus(wire) => cls.st = "failed" /\ ErrorKind(cls.exc) = "RequestFailed")
        /\ (CauseMalformed(wire) =>
                cls.st = "failed" /\ ErrorKind(cls.exc) = "MalformedResponse")
        /\ (cls.st = "failed" /\ ~CauseTimeout(wire) /\ ~CauseStatus(wire)
                /\ ~CauseMalformed(wire) =>
                wire.net = "connect_error" /\ ErrorKind(cls.exc) \notin DefinedKinds)
        /\ (cls.st = "failed" => error.exc = cls.exc /\ pc = "failed")

\* a 500 answer whose body would parse has failed the call with the status error
WitnessC7 ==
    /\ ExchangeHeld
    /\ wire = ServerError
    /\ cls.st = "failed"
    /\ cls.exc = "HTTPStatusError"
    /\ display.kind = "error"

AllTasks == {forecasts_tasks, judge_tasks}
SomeCancelled == \E tasks \in AllTasks : SomeTask(tasks, {"cancelled"})

\* C4 as stated: no member call of a fan-out stage is ever cancelled
OriginalC4 == ~SomeCancelled

\* C4 as amended: no member call is cancelled while run_pipeline runs or when it
\* succeeds; when run_pipeline has failed, asyncio.run cancels the member calls
\* still in flight before the error is shown, so that none is left in flight
TheoremC4 ==
    /\ (SomeCancelled => pc = "failed" /\ display.kind = "error")
    /\ (display.kind # "none" =>
            \A tasks \in AllTasks : ~SomeTask(tasks, {"created", "inflight"}))
    /\ (pc = "returned" => \A tasks \in AllTasks : EveryTask(tasks, {"done"}))

\* the first forecaster failed, run_pipeline failed, and the three siblings were
\* cancelled in flight
WitnessC4 ==
    /\ pc = "failed"
    /\ display.kind = "error"
    /\ Len(forecasts_tasks) = NumForecasters
    /\ forecasts_tasks[1].st = "failed"
    /\ \A i \in 2..NumForecasters : forecasts_tasks[i].st = "cancelled"

\* the call that error names has failed with the exception that error carries
ErrorIsOfItsCall ==
    CASE error.stage = "classify" -> cls.st = "failed" /\ cls.exc = error.exc
      [] error.stage = "supreme" -> sup.st = "failed" /\ sup.exc = error.exc
      [] error.stage \in Stages ->
            /\ error.idx \in DOMAIN TasksOf(error.stage)
            /\ TasksOf(error.stage)[error.idx].st = "failed"
            /\ TasksOf(error.stage)[error.idx].exc = error.exc
      [] OTHER -> FALSE

SomeCallFailed ==
    \/ cls.st = "failed"
    \/ sup.st = "failed"
    \/ \E tasks \in AllTasks : SomeTask(tasks, {"failed"})

\* the member call of the stage that failed first in time
FirstFailed(stage) ==
    LET order == OrderOf(stage)
        tasks == TasksOf(stage)
        ks == {k \in DOMAIN order : tasks[order[k]].st = "failed"}
    IN  order[CHOOSE k \in ks : \A l \in ks : k <= l]

\* C5 as stated: run_pipeline fails with the error of the call that failed first,
\* without waiting for the other calls of the stage
OriginalC5 ==
    pc = "failed" /\ error.stage \in Stages =>
        /\ error.idx = FirstFailed(error.stage)
        /\ error.exc = TasksOf(error.stage)[FirstFailed(error.stage)].exc

\* C5 as amended: a failed call makes run_pipeline fail when run_pipeline awaits
\* it, which for a fan-out stage is after the calls created before it; the
\* error is that of the awaited call, unchanged; no ForecastResult, not even a
\* partial one, is returned or shown
TheoremC5 ==
    /\ (pc = "failed" <=> error # NoError)
    /\ (pc = "failed" =>
            /\ ErrorIsOfItsCall
            /\ result = NoResult
            /\ display.kind \in {"none", "error"}
            /\ (display.kind = "error" => display.exc = error.exc))
    /\ (SomeCallFailed => pc # "returned" /\ result = NoResult)
    /\ (SomeCallFailed /\ display.kind # "none" => pc = "failed")

\* the second forecaster failed first, with a status error; run_pipeline waited for
\* the first forecaster, which then timed out, and raised the timeout
WitnessC5 ==
    /\ pc = "failed"
    /\ error = Fail("TimeoutException", "forecast", 1)
    /\ Len(forder) >= 2
    /\ forder[1] = 2
    /\ forecasts_tasks[2].exc = "HTTPStatusError"

\* C10: results are awaited in index order: when run_pipeline fails in a fan-out
\* stage, the calls created before the failing one have all succeeded, so the error
\* is that of the lowest-index failing call whichever call failed first; and all
\* calls of a stage are created before the first result is awaited
TheoremC10 ==
    /\ \A stage \in Stages :
          pc = "failed" /\ error.stage = stage =>
              /\ error.idx \in DOMAIN TasksOf(stage)
              /\ \A j \in 1..(error.idx - 1) : TasksOf(stage)[j].st = "done"
              /\ TasksOf(stage)[error.idx].st = "failed"
              /\ error.exc = TasksOf(stage)[error.idx].exc
    /\ (pc = "forecast" => Len(forecasts_tasks) = NumForecasters)
    /\ (pc = "judge" => Len(judge_tasks) = NumJudges)
    /\ (forder # <<>> => Len(forecasts_tasks) = NumForecasters)
    /\ (jorder # <<>> => Len(judge_tasks) = NumJudges)
    /\ (pc \in {"forecast", "judge"} =>
            \A i \in 1..Len(acc) : TasksOf(pc)[i].st = "done")

\* the third forecaster failed first and the second failed after it; run_pipeline
\* raised the error of the second
WitnessC10 ==
    /\ pc = "failed"
    /\ error.stage = "forecast"
    /\ error.idx = 2
    /\ forecasts_tasks[1].st = "done"
    /\ forecasts_tasks[3].st = "failed"
    /\ forecasts_tasks[3].exc # forecasts_tasks[2].exc
    /\ FirstFailed("forecast") = 3

====
